---- MODULE Spec2Model ----
(***************************************************************************)
(* Model of the Ethereum transaction analyser: the Etherscan paginator     *)
(* (EtherscanApiClient), the retrying transport (ApiClient), the analyzer  *)
(* (EthereumTransactionAnalyzer) and the two drivers (main and             *)
(* CoinTrackerService.generate_transaction_report).                        *)
(*                                                                         *)
(* A behaviour is one call of one entry point, chosen with its inputs in   *)
(* Init.  A Python dict is a sequence of [key, val] pairs in insertion     *)
(* order, because analyze iterates its argument in that order.             *)
(***************************************************************************)
EXTENDS Integers, Sequences, FiniteSets, TLC

VARIABLES
    entry,                  \* the entry point this behaviour calls
    pc,                     \* position of the single thread of control
    address,                \* the address argument (a tuple of characters)
    api_key_set,            \* ETHERSCAN_API_KEY is set in the environment
    remote,                 \* the remote source: action -> records, ascending
    offset,                 \* page size of _get_transactions
    cat_idx,                \* position of get_all_transactions in TRANSACTION_ACTIONS
    action,                 \* action argument of the running _get_transactions
    start_block,            \* _get_transactions local
    batch_number,           \* _get_transactions local
    transactions,           \* _get_transactions local accumulator
    attempt,                \* ApiClient.get loop variable
    outstanding,            \* HTTP requests sent and not yet answered
    results,                \* get_all_transactions local dict
    page_outcome,           \* how the latest _get_transactions call ended
    page_return,            \* what it returned
    fetch_outcome,          \* how get_all_transactions ended
    raw_data,               \* what get_all_transactions returned
    raw_transaction_data,   \* argument of analyze
    analyze_outcome,        \* how analyze ended
    analyze_return,         \* what analyze returned
    processed_transactions, \* EthereumTransactionAnalyzer.processed_transactions
    analyze_calls,          \* number of analyze invocations
    export_calls,           \* number of export invocations
    export_arg,             \* the transactions argument of a direct export call
    export_outcome,         \* how the latest export call ended
    csv_file,               \* the file export has written, if any
    exit_code,              \* outcome of main ("0"/"1") or of the service call
    fn_args,                \* arguments of a direct call of a function of utils
    fn_return               \* what that call returned, or that it raised

vars == <<entry, pc, address, api_key_set, remote, offset, cat_idx, action,
          start_block, batch_number, transactions, attempt, outstanding,
          results, page_outcome, page_return, fetch_outcome, raw_data,
          raw_transaction_data, analyze_outcome, analyze_return,
          processed_transactions, analyze_calls, export_calls, export_arg,
          export_outcome, csv_file, exit_code, fn_args, fn_return>>

----------------------------------------------------------------------------
(* Bounds of the model *)

MaxLen == 3        \* records of the source of a direct _get_transactions call
MaxBlock == 3      \* highest block number of such a source
MaxOffset == 2     \* largest page size of a direct _get_transactions call
MaxRunLen == 1     \* records per category of the source of a whole run
RunOffset == 1     \* page size of a whole run (stands for the default 10000)
MaxKeys == 2       \* keys of the mapping handed to a direct analyze call
MaxRecs == 3       \* records of that mapping, all keys together
MaxDigits == 29    \* digits of the argument of a direct convert_wei_to_eth call
MaxGasDigits == 15 \* digits of each argument of a direct calculate_gas_fee call
MaxTsDigits == 20  \* digits of the argument of a direct convert_timestamp call
MaxAbsent == 2     \* keys absent from the raw record of a one-record analyze call
MaxRows == 2       \* records of the argument of a direct export call
MaxCalls == 2      \* analyze calls on one analyzer instance

\* batch_number is an unbounded counter in the code; no reachable value
\* exceeds the number of records plus one, so this cap never binds.
MaxBatch == MaxLen + MaxRunLen + 2

----------------------------------------------------------------------------
(* Generic helpers *)

Range(s) == {s[i] : i \in 1..Len(s)}

Repeat(c, n) == [i \in 1..n |-> c]

\* dict[key] = val on a dict kept as a sequence of pairs in insertion order
DictSet(d, k, v) ==
    IF \E i \in 1..Len(d) : d[i].key = k
    THEN [i \in 1..Len(d) |-> IF d[i].key = k THEN [key |-> k, val |-> v] ELSE d[i]]
    ELSE Append(d, [key |-> k, val |-> v])

DictHas(d, k) == \E i \in 1..Len(d) : d[i].key = k

DictGet(d, k) == d[CHOOSE i \in 1..Len(d) : d[i].key = k].val

DictKeys(d) == [i \in 1..Len(d) |-> d[i].key]

\* the outcome of a call: a value, or an exception that escapes
Ok(v) == [raises |-> FALSE, value |-> v]
Raise == [raises |-> TRUE, value |-> <<>>]

----------------------------------------------------------------------------
(* Python values.  A str is a tuple of characters ('' is <<>>); an argument *)
(* that may be None carries a flag.                                         *)

None == [isNone |-> TRUE, text |-> <<>>]

Str(t) == [isNone |-> FALSE, text |-> t]

\* not v: None and '' are falsy, every other str is truthy
Falsy(v) == v.isNone \/ v.text = <<>>

\* tx.get(key, default) on a raw record that is a mapping
Get(tx, key, default) == IF key \in DOMAIN tx THEN tx[key] ELSE default

Last(s) == s[Len(s)]

Front(s) == SubSeq(s, 1, Len(s) - 1)

\* the first position of s that holds c, or Len(s) + 1
FirstIndex(s, c) ==
    IF \A i \in 1..Len(s) : s[i] # c THEN Len(s) + 1
    ELSE CHOOSE i \in 1..Len(s) : s[i] = c /\ \A j \in 1..(i - 1) : s[j] # c

\* the last position of s that does not hold c, or 0
LastOther(s, c) ==
    IF \A i \in 1..Len(s) : s[i] = c THEN 0
    ELSE CHOOSE i \in 1..Len(s) : s[i] # c /\ \A j \in (i + 1)..Len(s) : s[j] = c

\* s.rstrip(c)
RStrip(s, c) == SubSeq(s, 1, LastOther(s, c))

----------------------------------------------------------------------------
(* Unbounded naturals as digit tuples, most significant digit first: the    *)
(* arithmetic of int and of the coefficient of a Decimal.  <<>> is zero.    *)

DigitChars == <<"0", "1", "2", "3", "4", "5", "6", "7", "8", "9">>

Digits == Range(DigitChars)

DigitVal(c) == (CHOOSE i \in 1..10 : DigitChars[i] = c) - 1

DigitChar(n) == DigitChars[n + 1]

IsDigits(s) == Len(s) >= 1 /\ \A i \in 1..Len(s) : s[i] \in Digits

\* the first position of s that does not hold "0", or Len(s) + 1
FirstNonZero(s) ==
    IF \A i \in 1..Len(s) : s[i] = "0" THEN Len(s) + 1
    ELSE CHOOSE i \in 1..Len(s) : s[i] # "0" /\ \A j \in 1..(i - 1) : s[j] = "0"

StripLeadingZeros(s) == SubSeq(s, FirstNonZero(s), Len(s))

RECURSIVE NatToDigits(_)
NatToDigits(n) ==
    IF n < 10 THEN <<DigitChar(n)>>
    ELSE Append(NatToDigits(n \div 10), DigitChar(n % 10))

\* the value of a short digit tuple
RECURSIVE DigitsToNat(_)
DigitsToNat(s) ==
    IF s = <<>> THEN 0 ELSE 10 * DigitsToNat(Front(s)) + DigitVal(Last(s))

\* a < b for digit tuples without leading zeros
LessDigits(a, b) ==
    \/ Len(a) < Len(b)
    \/ /\ Len(a) = Len(b)
       /\ \E i \in 1..Len(a) :
              /\ DigitVal(a[i]) < DigitVal(b[i])
              /\ \A j \in 1..(i - 1) : a[j] = b[j]

\* c with the digit at p raised by one and every later digit set to "0";
\* p = 0 when every digit of c is "9"
IncAt(c, p) ==
    IF p = 0 THEN <<"1">> \o Repeat("0", Len(c))
    ELSE [i \in 1..Len(c) |->
             IF i < p THEN c[i]
             ELSE IF i = p THEN DigitChar(DigitVal(c[p]) + 1) ELSE "0"]

\* c + 1
IncDigits(c) == IncAt(c, LastOther(c, "9"))

RECURSIVE SumTo(_, _)
SumTo(f, n) == IF n = 0 THEN 0 ELSE f[n] + SumTo(f, n - 1)

\* the digits, least significant first, of the number whose column k holds
\* cols[k] units of 10^(k-1)
RECURSIVE CarryPass(_, _, _)
CarryPass(cols, k, carry) ==
    IF k > Len(cols)
    THEN IF carry = 0 THEN <<>> ELSE <<DigitChar(carry % 10)>> \o CarryPass(cols, k, carry \div 10)
    ELSE <<DigitChar((cols[k] + carry) % 10)>>
         \o CarryPass(cols, k + 1, (cols[k] + carry) \div 10)

Reverse(s) == [i \in 1..Len(s) |-> s[Len(s) + 1 - i]]

\* the units of 10^(n+m-k-1) in the product of a (n digits) and b (m digits):
\* the sum of a[i] * b[j] over i + j = k + 1, columns counted from the left
\* as n + m - k
MulColumn(a, b, k) ==
    SumTo([i \in 1..Len(a) |->
              IF (Len(a) + Len(b) + 1) - k - i \in 1..Len(b)
              THEN DigitVal(a[i]) * DigitVal(b[(Len(a) + Len(b) + 1) - k - i]) ELSE 0],
          Len(a))

\* the exact product of two naturals
MulDigits(a, b) ==
    IF a = <<>> \/ b = <<>> THEN <<>>
    ELSE StripLeadingZeros(Reverse(CarryPass(
             [k \in 1..(Len(a) + Len(b) - 1) |-> MulColumn(a, b, k)], 1, 0)))

\* the dropped digits are more than half a unit of the kept ones, or exactly
\* half with the last kept digit odd
RoundsUp(keep, rest) ==
    \/ LessDigits(<<"5">> \o Repeat("0", Len(rest) - 1), rest)
    \/ /\ rest = <<"5">> \o Repeat("0", Len(rest) - 1)
       /\ DigitVal(Last(keep)) % 2 = 1

RoundSplit(keep, rest) ==
    StripLeadingZeros(IF RoundsUp(keep, rest) THEN IncDigits(keep) ELSE keep)

RoundPadded(padded, k) ==
    RoundSplit(SubSeq(padded, 1, Len(padded) - k),
               SubSeq(padded, Len(padded) - k + 1, Len(padded)))

\* c with its last k digits dropped, rounded half to even (ROUND_HALF_EVEN)
RoundDrop(c, k) ==
    IF k <= 0 THEN c ELSE RoundPadded(Repeat("0", k + 1 - Len(c)) \o c, k)

----------------------------------------------------------------------------
(* decimal.Decimal under the default context: a coefficient (digit tuple    *)
(* without leading zeros) and an exponent; every operation rounds its       *)
(* result to the precision of the context                                   *)

\* getcontext().prec, which neither utils nor the analyzer changes
DecimalPrec == 28

Dec(c, e) == [coeff |-> c, exp |-> e]

\* a rounded coefficient that carried into one more digit loses its last zero
Renormalize(r, e) ==
    IF Len(r) > DecimalPrec THEN Dec(Front(r), e + 1) ELSE Dec(r, e)

\* the rounding every arithmetic operation applies to its exact result
DecimalRound(d) ==
    IF Len(d.coeff) <= DecimalPrec THEN d
    ELSE Renormalize(RoundDrop(d.coeff, Len(d.coeff) - DecimalPrec),
                     d.exp + Len(d.coeff) - DecimalPrec)

\* the conversion raises InvalidOperation
DecimalInvalid == [ok |-> FALSE, dec |-> Dec(<<>>, 0)]

\* the mantissa [digits][.digits] with at least one digit
ParseParts(ipart, fpart, expn) ==
    IF /\ \A i \in 1..Len(ipart) : ipart[i] \in Digits
       /\ \A i \in 1..Len(fpart) : fpart[i] \in Digits
       /\ Len(ipart) + Len(fpart) >= 1
    THEN [ok |-> TRUE, dec |-> Dec(StripLeadingZeros(ipart \o fpart), expn - Len(fpart))]
    ELSE DecimalInvalid

ParseMantissa(mant, expn) ==
    ParseParts(SubSeq(mant, 1, FirstIndex(mant, ".") - 1),
               SubSeq(mant, FirstIndex(mant, ".") + 1, Len(mant)), expn)

\* the exponent [+]digits
ParseExponent(mant, etxt) ==
    IF Len(etxt) >= 1 /\ etxt[1] = "+"
    THEN IF IsDigits(Tail(etxt)) THEN ParseMantissa(mant, DigitsToNat(Tail(etxt)))
         ELSE DecimalInvalid
    ELSE IF IsDigits(etxt) THEN ParseMantissa(mant, DigitsToNat(etxt))
         ELSE DecimalInvalid

\* Decimal(text) for text over digits, ".", "E", "+" and other characters:
\* [digits][.digits][E[+]digits] with a digit in the mantissa, or
\* InvalidOperation
DecimalParse(text) ==
    IF \A i \in 1..Len(text) : text[i] # "E" THEN ParseMantissa(text, 0)
    ELSE ParseExponent(SubSeq(text, 1, FirstIndex(text, "E") - 1),
                       SubSeq(text, FirstIndex(text, "E") + 1, Len(text)))

\* scientific notation of the coefficient c with the exponent e > 0
Scientific(c, e) ==
    <<c[1]>> \o (IF Len(c) > 1 THEN <<".">> \o SubSeq(c, 2, Len(c)) ELSE <<>>)
    \o <<"E", "+">> \o NatToDigits(e + Len(c) - 1)

\* str(d) for an exponent >= 0: the digits when the exponent is 0,
\* scientific notation otherwise
DecimalStr(d) ==
    IF d.exp = 0 THEN (IF d.coeff = <<>> THEN <<"0">> ELSE d.coeff)
    ELSE Scientific(IF d.coeff = <<>> THEN <<"0">> ELSE d.coeff, d.exp)

\* x * y
DecimalMul(x, y) == DecimalRound(Dec(MulDigits(x.coeff, y.coeff), x.exp + y.exp))

\* Decimal('1000000000000000000'), the divisor of the conversion
ETH_TO_WEI_MULTIPLIER == <<"1">> \o Repeat("0", 18)

\* x / m for m a power of ten
DecimalDivPow10(x, m) ==
    IF x.coeff = <<>> THEN Dec(<<>>, x.exp - (Len(m) - 1))
    ELSE DecimalRound(Dec(x.coeff, x.exp - (Len(m) - 1)))

\* positional notation of a number of units of 10^-18, at least 19 digits
Positional18(padded) ==
    SubSeq(padded, 1, Len(padded) - 18) \o <<".">>
    \o SubSeq(padded, Len(padded) - 17, Len(padded))

Pad19(scaled) == Positional18(Repeat("0", 19 - Len(scaled)) \o scaled)

\* f"{d:.18f}": the value quantized to 18 places, in positional notation
Format18f(d) ==
    IF d.exp >= -18
    THEN Pad19(StripLeadingZeros(d.coeff \o Repeat("0", d.exp + 18)))
    ELSE Pad19(RoundDrop(d.coeff, (0 - 18) - d.exp))

----------------------------------------------------------------------------
(* utils.py, and the methods of the analyzer with the same statements *)

\* the handler lets the exception escape
convert_wei_to_eth_except_reraise == Raise

\* convert_wei_to_eth: except (InvalidOperation, ValueError): log, return '0'
convert_wei_to_eth_except == Ok(<<"0">>)

\* eth_decimal = wei_decimal / ETH_TO_WEI_MULTIPLIER
WeiToEth(wei_decimal) == DecimalDivPow10(wei_decimal, ETH_TO_WEI_MULTIPLIER)

\* the try block of convert_wei_to_eth once Decimal(str(wei_value)) is taken
convert_wei_to_eth_try(wei_decimal) ==
    IF ~wei_decimal.ok THEN convert_wei_to_eth_except
    ELSE Ok(RStrip(RStrip(Format18f(WeiToEth(wei_decimal.dec)), "0"), "."))

convert_wei_to_eth(wei_value) ==
    IF Falsy(wei_value) \/ wei_value.text = <<"0">> THEN Ok(<<"0">>)
    ELSE convert_wei_to_eth_try(DecimalParse(wei_value.text))

\* the price is left out of the fee
GasFeeWei_used(gas_used_decimal, gas_price_decimal) == gas_used_decimal

\* gas_fee_wei = gas_used_decimal * gas_price_decimal
GasFeeWei(gas_used_decimal, gas_price_decimal) ==
    DecimalMul(gas_used_decimal, gas_price_decimal)

\* the try block of calculate_gas_fee once both Decimal(str(...)) are taken
calculate_gas_fee_try(gas_used_decimal, gas_price_decimal) ==
    IF ~gas_used_decimal.ok \/ ~gas_price_decimal.ok THEN Ok(<<"0">>)
    ELSE convert_wei_to_eth(
             Str(DecimalStr(GasFeeWei(gas_used_decimal.dec, gas_price_decimal.dec))))

calculate_gas_fee(gas_used, gas_price) ==
    IF Falsy(gas_used) \/ Falsy(gas_price) THEN Ok(<<"0">>)
    ELSE calculate_gas_fee_try(DecimalParse(gas_used.text), DecimalParse(gas_price.text))

\* the digits of an int literal, with the sign read
IntBody(neg, body) ==
    IF IsDigits(body) THEN [ok |-> TRUE, neg |-> neg, mag |-> StripLeadingZeros(body)]
    ELSE [ok |-> FALSE, neg |-> FALSE, mag |-> <<>>]

\* int(text) for text over digits, "-", "+" and other characters: an optional
\* sign and one or more digits, or ValueError
IntParse(text) ==
    IF Len(text) >= 1 /\ text[1] \in {"-", "+"} THEN IntBody(text[1] = "-", Tail(text))
    ELSE IntBody(FALSE, text)

\* one step of long division: the quotient and remainder h of the leading
\* digits, extended by the digit c
DivStep(h, c, d) ==
    [q |-> Append(h.q, DigitChar((h.r * 10 + DigitVal(c)) \div d)),
     r |-> (h.r * 10 + DigitVal(c)) % d]

\* quotient (digit tuple) and remainder of a natural by a small divisor
RECURSIVE DivSmall(_, _)
DivSmall(s, d) ==
    IF s = <<>> THEN [q |-> <<>>, r |-> 0]
    ELSE DivStep(DivSmall(Front(s), d), Last(s), d)

\* the largest time_t of the platform, 2^63 - 1
TimeTMax == <<"9", "2", "2", "3", "3", "7", "2", "0", "3", "6",
              "8", "5", "4", "7", "7", "5", "8", "0", "7">>

\* the value does not fit time_t: fromtimestamp raises OverflowError
TimeTOverflow(n) ==
    IF n.neg THEN LessDigits(IncDigits(TimeTMax), n.mag) ELSE LessDigits(TimeTMax, n.mag)

\* days since 1970-01-01 of the first and the last instant that
\* datetime.fromtimestamp accepts (0001-01-02 and 9999-12-31, local time UTC)
MinDay == 0 - 719161
MaxDay == 2932896

\* the date of the day doy of the year y that starts in March, mp its month
CivilFromMp(y, doy, mp) ==
    [year  |-> y + (IF mp < 10 THEN 0 ELSE 1),
     month |-> IF mp < 10 THEN mp + 3 ELSE mp - 9,
     day   |-> doy - (153 * mp + 2) \div 5 + 1]

CivilFromDoy(y, doy) == CivilFromMp(y, doy, (5 * doy + 2) \div 153)

CivilFromYoe(era, doe, yoe) ==
    CivilFromDoy(yoe + era * 400, doe - (365 * yoe + yoe \div 4 - yoe \div 100))

CivilFromDoe(era, doe) ==
    CivilFromYoe(era, doe,
                 (doe - doe \div 1460 + doe \div 36524 - doe \div 146096) \div 365)

CivilFromEra(z, era) == CivilFromDoe(era, z - era * 146097)

\* the proleptic Gregorian date of a day number
CivilFromDays(days) == CivilFromEra(days + 719468, (days + 719468) \div 146097)

Pad2(n) == <<DigitChar(n \div 10), DigitChar(n % 10)>>

\* dt.strftime('%Y-%m-%d %H:%M:%S'); %Y is the year without padding on the
\* C library of this platform
Strftime(date, secs) ==
    NatToDigits(date.year) \o <<"-">> \o Pad2(date.month) \o <<"-">> \o Pad2(date.day)
    \o <<" ">> \o Pad2(secs \div 3600) \o <<":">> \o Pad2((secs % 3600) \div 60)
    \o <<":">> \o Pad2(secs % 60)

\* convert_timestamp: except (ValueError, OSError): log, return ''
convert_timestamp_except == Ok(<<>>)

\* the local time of the day number days and the second secs of that day
FromDaySecs(days, secs) ==
    IF days < MinDay \/ days > MaxDay THEN convert_timestamp_except
    ELSE Ok(Strftime(CivilFromDays(days), secs))

\* floor division of the signed timestamp by 86400, from the quotient up
\* and remainder r of its magnitude
FromDivMod(neg, up, r) ==
    IF ~neg THEN FromDaySecs(up, r)
    ELSE IF r = 0 THEN FromDaySecs(0 - up, 0)
    ELSE FromDaySecs(0 - (up + 1), 86400 - r)

FromQuotient(neg, q, r) ==
    IF Len(q) > 7 THEN convert_timestamp_except ELSE FromDivMod(neg, DigitsToNat(q), r)

FromDivSmall(neg, dm) == FromQuotient(neg, StripLeadingZeros(dm.q), dm.r)

\* datetime.fromtimestamp(n).strftime(...): OverflowError when n does not fit
\* time_t, ValueError or OSError when the year is out of range
FromTimestamp(n) ==
    IF TimeTOverflow(n) THEN Raise ELSE FromDivSmall(n.neg, DivSmall(n.mag, 86400))

\* the try block of convert_timestamp once int(timestamp) is taken
convert_timestamp_try(n) ==
    IF ~n.ok THEN convert_timestamp_except ELSE FromTimestamp(n)

convert_timestamp(timestamp) ==
    IF Falsy(timestamp) THEN Ok(<<>>) ELSE convert_timestamp_try(IntParse(timestamp.text))

----------------------------------------------------------------------------
(* Program constants *)

MAX_RETRIES == 3

TRANSACTION_ACTIONS ==
    << [key |-> "erc20",    val |-> "tokentx"],
       [key |-> "erc721",   val |-> "tokennfttx"],
       [key |-> "erc1155",  val |-> "token1155tx"],
       [key |-> "normal",   val |-> "txlist"],
       [key |-> "internal", val |-> "txlistinternal"] >>

TRANSACTION_TYPES ==
    << [key |-> "normal",   val |-> "ETH Transfer"],
       [key |-> "erc20",    val |-> "ERC-20 Transfer"],
       [key |-> "erc721",   val |-> "ERC-721 Transfer"],
       [key |-> "erc1155",  val |-> "ERC-1155 Transfer"],
       [key |-> "internal", val |-> "Internal Transfer"],
       [key |-> "contract_interaction", val |-> "Contract Interaction"] >>

\* EthereumTransactionType: the closed set of five categories
EthereumTransactionType == {"normal", "internal", "erc20", "erc721", "erc1155"}

Actions == {TRANSACTION_ACTIONS[i].val : i \in 1..Len(TRANSACTION_ACTIONS)}

\* the fields of TransactionDomainModel
TransactionDomainModel ==
    {"transaction_hash", "date_time", "from_address", "to_address", "transaction_type",
     "contract_address", "asset_symbol", "asset_name", "token_id", "value_amount_eth",
     "gas", "gas_price", "gas_used", "gas_fee_eth", "is_error"}

\* CSVExporter.CSV_COLUMNS
CSV_COLUMNS ==
    <<"transaction_hash", "date_time", "from_address", "to_address", "transaction_type",
      "contract_address", "asset_symbol", "asset_name", "token_id", "value_amount_eth",
      "gas_fee_eth">>

----------------------------------------------------------------------------
(* Raw records.  isMapping is FALSE for an element that is not a dict (a   *)
(* string, None): any tx.get on it raises AttributeError.                  *)

TsValid == <<"1", "6", "4", "0", "9", "9", "5", "2", "0", "0">>
TsHuge  == Repeat("9", 20)

\* the hash of the record with number h
HashText(h) == <<"0", "x">> \o NatToDigits(h)

Rec(h, b, m, ts) ==
    [hash |-> HashText(h), blockNumber |-> b, isMapping |-> m, timeStamp |-> ts]

----------------------------------------------------------------------------
(* main.validate_ethereum_address *)

HexChars == {"0", "1", "2", "3", "4", "5", "6", "7", "8", "9",
             "a", "b", "c", "d", "e", "f", "A", "B", "C", "D", "E", "F"}

StartsWith(s, p) == Len(s) >= Len(p) /\ SubSeq(s, 1, Len(p)) = p

\* re.match(r"^[0-9a-fA-F]+$", s): one or more hex characters up to the end,
\* where $ also matches just before a final newline
MatchesHex(s) ==
    \/ Len(s) >= 1 /\ \A i \in 1..Len(s) : s[i] \in HexChars
    \/ Len(s) >= 2 /\ s[Len(s)] = "\n" /\ \A i \in 1..(Len(s) - 1) : s[i] \in HexChars

validate_ethereum_address(addr) ==
    IF addr = <<>> THEN FALSE
    ELSE IF ~(StartsWith(addr, <<"0", "x">>) \/ StartsWith(addr, <<"0", "X">>)) THEN FALSE
    ELSE LET hex_part == SubSeq(addr, 3, Len(addr))
         IN  Len(hex_part) = 40 /\ MatchesHex(hex_part)

ValidAddress == <<"0", "x">> \o Repeat("a", 40)

Addresses ==
    { <<>>,
      ValidAddress,
      <<"0", "X">> \o Repeat("F", 40),
      Repeat("a", 42),
      <<"0", "x">> \o Repeat("a", 39),
      <<"0", "x">> \o Repeat("g", 40),
      <<"0", "x">> \o Repeat("a", 39) \o <<"\n">> }

----------------------------------------------------------------------------
(* EtherscanApiClient._get_transactions: the pure parts *)

\* What the remote source answers to one request: up to offset records with
\* blockNumber >= startblock, in the ascending order in which it holds them
Page(source, startblock, off) ==
    LET filtered == SelectSeq(source, LAMBDA r : r.blockNumber >= startblock)
    IN  SubSeq(filtered, 1, IF Len(filtered) < off THEN Len(filtered) ELSE off)

\* the loop stops only on a page with no record at all
ShortPage_empty(result, off) == Len(result) = 0

\* termination condition A: len(result) < offset
ShortPage(result, off) == Len(result) < off

\* int(result[-1].get('blockNumber'))
LastBlockNumber(result) == result[Len(result)].blockNumber

\* the loop never stops because the cursor did not move
NoProgress_never(last_block_number, startblock) == FALSE

\* termination condition B: last_block_number == start_block
NoProgress(last_block_number, startblock) == last_block_number = startblock

\* the page is put in front of the records accumulated so far
ExtendTransactions_front(acc, result) == result \o acc

\* transactions.extend(result)
ExtendTransactions(acc, result) == acc \o result

\* the cursor skips the block after the last one
NextStartBlock_skip(last_block_number) == last_block_number + 2

\* the cursor restarts at the last block instead of moving past it
NextStartBlock_same(last_block_number) == last_block_number

\* the cursor is reset instead of advanced
NextStartBlock_reset(last_block_number) == 0

\* start_block = last_block_number + 1
NextStartBlock(last_block_number) == last_block_number + 1

\* the exception is swallowed and the partial mapping returned
get_all_transactions_except_swallow(res) == [outcome |-> "returned", value |-> res]

\* get_all_transactions: except Exception: log, then raise
get_all_transactions_except(res) == [outcome |-> "raised", value |-> <<>>]

\* every category is fetched with the action of the first
CategoryAction_first(idx) == TRANSACTION_ACTIONS[1].val

\* for txn_type, action in self.TRANSACTION_ACTIONS.items(): the action of
\* the category at position idx
CategoryAction(idx) == TRANSACTION_ACTIONS[idx].val

\* the loop stops after its first category
HasNextCategory_never(idx) == FALSE

\* the for loop of get_all_transactions has another category to fetch
HasNextCategory(idx) == idx < Len(TRANSACTION_ACTIONS)

----------------------------------------------------------------------------
(* EthereumTransactionAnalyzer: the pure parts *)

\* _convert_wei_to_eth: the statements of utils.convert_wei_to_eth, the
\* divisor written as Decimal('1000000000000000000')
_convert_wei_to_eth(wei_value) == convert_wei_to_eth(wei_value)

\* _convert_timestamp: the statements of utils.convert_timestamp; '' for an
\* empty value and when ValueError or OSError is raised; OverflowError of
\* datetime.fromtimestamp is not caught and escapes
_convert_timestamp(timestamp) == convert_timestamp(timestamp)

\* _calculate_gas_fee: the statements of utils.calculate_gas_fee
_calculate_gas_fee(gas_used, gas_price) == calculate_gas_fee(gas_used, gas_price)

\* an absent key reads as the text None
EmptyDefault_none == <<"N", "o", "n", "e">>

\* the default of tx.get(key, '')
EmptyDefault == <<>>

\* every value but '0' counts as an error
IsError_not_zero(tx) == Get(tx, "isError", <<"0">>) # <<"0">>

\* tx.get('isError', '0') == '1'
IsError(tx) == Get(tx, "isError", <<"0">>) = <<"1">>

\* 'asset_symbol_name': 'ETH', whatever the label and the record
AssetSymbolName(tx, transaction_type) == <<"E", "T", "H">>

\* the record _process_transaction builds from the three converted values
ProcessedTx(tx, transaction_type, date_time, value_amount, gas_fee_eth) ==
    IF date_time.raises \/ value_amount.raises \/ gas_fee_eth.raises THEN Raise
    ELSE Ok([transaction_hash       |-> Get(tx, "hash", EmptyDefault),
             date_time              |-> date_time.value,
             from_address           |-> Get(tx, "from", EmptyDefault),
             to_address             |-> Get(tx, "to", EmptyDefault),
             transaction_type       |-> transaction_type,
             asset_contract_address |-> Get(tx, "contractAddress", EmptyDefault),
             asset_symbol_name      |-> AssetSymbolName(tx, transaction_type),
             token_id               |-> <<>>,
             value_amount           |-> value_amount.value,
             gas_fee_eth            |-> gas_fee_eth.value,
             block_number           |-> Get(tx, "blockNumber", EmptyDefault),
             transaction_index      |-> Get(tx, "transactionIndex", EmptyDefault),
             input_data             |-> Get(tx, "input", EmptyDefault),
             is_error               |-> IsError(tx)])

_process_transaction(tx, transaction_type) ==
    IF ~tx.isMapping THEN Raise
    ELSE ProcessedTx(tx, transaction_type,
                     _convert_timestamp(Str(Get(tx, "timeStamp", EmptyDefault))),
                     _convert_wei_to_eth(Str(Get(tx, "value", <<"0">>))),
                     _calculate_gas_fee(Str(Get(tx, "gasUsed", <<"0">>)),
                                        Str(Get(tx, "gasPrice", <<"0">>))))

\* the except clause of analyze: logger.error(... tx.get('hash', 'unknown') ...)
\* then continue; tx.get itself raises when tx is not a mapping
analyze_except(tx) == IF tx.isMapping THEN "continue" ELSE "raise"

\* the record is inserted at the front
AppendProcessed_front(processed, processed_tx) == <<processed_tx>> \o processed

\* processed_transactions.append(processed_tx)
AppendProcessed(processed, processed_tx) == Append(processed, processed_tx)

\* the items are visited in reverse insertion order
Items_reversed(d) == [i \in 1..Len(d) |-> d[Len(d) + 1 - i]]

\* raw_transaction_data.items(): the items in insertion order
Items(d) == d

RECURSIVE analyze_records(_, _, _, _)

\* the body of the inner loop once _process_transaction has returned r or
\* raised
analyze_record(txs, j, label, processed, r) ==
    IF ~r.raises
    THEN analyze_records(txs, j + 1, label, AppendProcessed(processed, r.value))
    ELSE IF analyze_except(txs[j]) = "continue"
         THEN analyze_records(txs, j + 1, label, processed)
         ELSE Raise

\* the inner loop of analyze over the records of one category, from record j
analyze_records(txs, j, label, processed) ==
    IF j > Len(txs) THEN Ok(processed)
    ELSE analyze_record(txs, j, label, processed, _process_transaction(txs[j], label))

RECURSIVE analyze_items(_, _, _)

\* the body of the outer loop once the inner loop has ended with r
analyze_item(items, i, r) ==
    IF r.raises THEN Raise ELSE analyze_items(items, i + 1, r.value)

\* the outer loop of analyze over the items of the mapping, from item i
analyze_items(items, i, processed) ==
    IF i > Len(items) THEN Ok(processed)
    ELSE IF ~DictHas(TRANSACTION_TYPES, items[i].key)
         THEN analyze_items(items, i + 1, processed)
         ELSE analyze_item(items, i,
                           analyze_records(items[i].val, 1,
                                           DictGet(TRANSACTION_TYPES, items[i].key),
                                           processed))

analyze(data) == analyze_items(Items(data), 1, <<>>)

----------------------------------------------------------------------------
(* CSVExporter.export: the pure parts *)

\* the transactions argument of export: a TransactionListDomainModel, or a
\* plain list such as the one analyze returns
Model(root) == [isModel |-> TRUE, root |-> root]

List(root) == [isModel |-> FALSE, root |-> root]

\* no file has been written
NoFile == [written |-> FALSE, rows |-> <<>>]

\* df.reindex(columns=self.CSV_COLUMNS, fill_value=""), one row: the columns
\* of CSV_COLUMNS, "" for a column the record does not have
Reindex(row) ==
    [c \in Range(CSV_COLUMNS) |-> IF c \in DOMAIN row THEN row[c] ELSE <<>>]

\* the rows are written last record first
DataFrameRows_reversed(dump) ==
    [i \in 1..Len(dump) |-> Reindex(dump[Len(dump) + 1 - i])]

\* pd.DataFrame(transactions.model_dump()), reindexed: one row per record,
\* in the order of the list
DataFrameRows(dump) == [i \in 1..Len(dump) |-> Reindex(dump[i])]

\* df.to_csv(full_path, ...): the header and the rows of the frame, however
\* many there are; return full_path
ToCsv(dump) == [raises |-> FALSE, file |-> [written |-> TRUE, rows |-> DataFrameRows(dump)]]

\* the try block of export: transactions.model_dump() raises AttributeError
\* on a list, which the handler logs and raises again before a file is
\* written
export(arg) ==
    IF ~arg.isModel THEN [raises |-> TRUE, file |-> NoFile]
    ELSE ToCsv(arg.root)

\* the handler reports success
main_except_zero == "0"

\* main: except Exception: log, print, return 1
main_except == "1"

----------------------------------------------------------------------------
(* Inputs *)

\* the source of a direct _get_transactions call: records in ascending block order
BlockSeqs ==
    {b \in UNION {[1..n -> 0..MaxBlock] : n \in 0..MaxLen} :
        \A i \in 1..(Len(b) - 1) : b[i] <= b[i + 1]}

MkSource(blocks) == [j \in 1..Len(blocks) |-> Rec(j, blocks[j], TRUE, TsValid)]

\* the source of one category of a whole run: n records in blocks 1..n
RunSource(c, n) == [j \in 1..n |-> Rec(10 * c + j, j, TRUE, TsValid)]

\* the mapping handed to a direct analyze call
InputKeys == {"normal", "erc20", "contract_interaction", "unknown_type"}

RecKinds == {"ok", "fault", "nonmap"}

RecOfKind(h, kind) ==
    IF kind = "ok" THEN Rec(h, 1, TRUE, TsValid)
    ELSE IF kind = "fault" THEN Rec(h, 1, TRUE, TsHuge)
    ELSE Rec(h, 1, FALSE, <<>>)

KeySeqs ==
    {ks \in UNION {[1..n -> InputKeys] : n \in 0..MaxKeys} :
        \A i, j \in 1..Len(ks) : i # j => ks[i] # ks[j]}

KindSeqs == UNION {[1..n -> RecKinds] : n \in 0..MaxRecs}

\* which key each record is listed under: records are dealt to the keys in order
Owners(n, m) == {f \in [1..n -> 1..m] : \A g \in 1..(n - 1) : f[g] <= f[g + 1]}

\* the keys _process_transaction reads, and the keys of an Etherscan record
\* about the gas limit and the token that it does not read
TxKeys == {"hash", "timeStamp", "from", "to", "contractAddress", "value", "gasUsed",
           "gasPrice", "blockNumber", "transactionIndex", "input", "isError",
           "tokenSymbol", "tokenName", "tokenID", "gas"}

\* the key sets of a raw record with few keys absent, or with one key at most
PresentKeySets ==
    {TxKeys \ absent : absent \in {a \in SUBSET TxKeys : Cardinality(a) <= MaxAbsent}}
    \cup {p \in SUBSET TxKeys : Cardinality(p) <= 1}

IsErrorTexts == {<<"0">>, <<"1">>, <<"t", "r", "u", "e">>}

\* what Etherscan sends under each key of a well-formed record
SampleValue(key, err) ==
    CASE key = "isMapping"        -> TRUE
      [] key = "hash"             -> HashText(1)
      [] key = "timeStamp"        -> TsValid
      [] key = "from"             -> <<"0", "x", "a">>
      [] key = "to"               -> <<"0", "x", "b">>
      [] key = "contractAddress"  -> <<"0", "x", "c">>
      [] key = "value"            -> <<"1", "5">> \o Repeat("0", 17)
      [] key = "gasUsed"          -> <<"2", "1", "0", "0", "0">>
      [] key = "gasPrice"         -> <<"2">> \o Repeat("0", 10)
      [] key = "blockNumber"      -> <<"1">>
      [] key = "transactionIndex" -> <<"7">>
      [] key = "input"            -> <<"0", "x">>
      [] key = "isError"          -> err
      [] key = "tokenSymbol"      -> <<"U", "S", "D", "C">>
      [] key = "tokenName"        -> <<"U", "S", "D", " ", "C", "o", "i", "n">>
      [] key = "tokenID"          -> <<"4", "2">>
      [] key = "gas"              -> <<"9", "0", "0", "0", "0">>

\* a mapping with one category holding one raw record with the given keys
SingleInput(k, present, err) ==
    << [key |-> k,
        val |-> << [f \in present \cup {"isMapping"} |-> SampleValue(f, err)] >>] >>

SingleKeys == {"normal", "erc20"}

AnalyzeInput(ks, kinds, owner) ==
    [i \in 1..Len(ks) |->
        [key |-> ks[i],
         val |-> LET idx == SelectSeq([g \in 1..Len(kinds) |-> g], LAMBDA g : owner[g] = i)
                 IN  [j \in 1..Len(idx) |-> RecOfKind(idx[j], kinds[idx[j]])]]]

\* the str arguments of the direct calls of the functions of utils: digit
\* tuples of every length up to a bound, made of a first digit, a repeated
\* digit and a last digit
DigitTexts(maxlen, firsts, fills, lasts) ==
    {<<c>> : c \in firsts \cup lasts}
    \cup UNION {{<<a>> \o Repeat(f, n - 2) \o <<b>> : a \in firsts, f \in fills, b \in lasts}
                : n \in 2..maxlen}

NonNumericTexts == {<<"x">>, <<"1", "2", "x">>}

WeiArgs ==
    {None, Str(<<>>), Str(<<"0">>), Str(<<"0", "0">>),
     Str(<<"1", "1", "2", "3", "4", "5", "6", "7", "8", "9",
           "0", "1", "2", "3", "4", "5", "6", "7", "8">>)}
    \cup {Str(t) : t \in NonNumericTexts}
    \cup {Str(t) : t \in DigitTexts(MaxDigits, {"1", "5", "9"}, {"0", "9"},
                                     {"0", "1", "5", "9"})}

GasArgs ==
    {None, Str(<<>>), Str(<<"0">>), Str(<<"x">>), Str(<<"2", "1", "0", "0", "0">>),
     Str(<<"2", "0", "0", "0", "0", "0", "0", "0", "0", "0", "0">>)}
    \cup {Str(t) : t \in DigitTexts(MaxGasDigits, {"1", "9"}, {"0", "9"}, {"1", "5"})}

\* the gas prices paired with every gas amount
GasPrices ==
    {None, Str(<<>>), Str(<<"0">>), Str(<<"x">>),
     Str(<<"2", "0", "0", "0", "0", "0", "0", "0", "0", "0", "0">>),
     Str(<<"1">> \o Repeat("0", MaxGasDigits - 2) \o <<"1">>),
     Str(Repeat("9", MaxGasDigits - 1) \o <<"5">>)}

TsArgs ==
    {None, Str(<<>>), Str(<<"-">>), Str(TsValid), Str(TimeTMax), Str(IncDigits(TimeTMax)),
     Str(<<"9", "5", "1", "7", "8", "2", "4", "0", "0">>),
     Str(<<"-", "4">> \o Repeat("0", 10)),
     Str(<<"2", "5", "3", "4", "0", "2", "3", "0", "0", "7", "9", "9">>),
     Str(<<"2", "5", "3", "4", "0", "2", "3", "0", "0", "8", "0", "0">>)}
    \cup {Str(t) : t \in NonNumericTexts}
    \cup {Str(sign \o t) : sign \in {<<>>, <<"-">>},
                            t \in DigitTexts(MaxTsDigits, {"1", "9"}, {"0", "9"}, {"0", "9"})}

\* the arguments of the calls on one analyzer instance: no category, one
\* record under normal, another under erc20, and an element that is not a
\* mapping
CallInputs ==
    { <<>>,
      << [key |-> "normal", val |-> << RecOfKind(1, "ok") >>] >>,
      << [key |-> "erc20",  val |-> << RecOfKind(2, "ok") >>] >>,
      << [key |-> "normal", val |-> << RecOfKind(3, "nonmap") >>] >> }

\* a record of the schema with the hash of number h
ExportRec(h) ==
    [f \in TransactionDomainModel |->
        IF f = "transaction_hash" THEN HashText(h)
        ELSE IF f = "is_error" THEN FALSE
        ELSE IF f = "transaction_type" THEN "ETH Transfer"
        ELSE IF f = "date_time" THEN convert_timestamp(Str(TsValid)).value
        ELSE <<>>]

\* the arguments of a direct export call: up to MaxRows records, the same
\* record twice included, as a model or as a plain list
ExportArgs ==
    {[isModel |-> m, root |-> [i \in 1..Len(hs) |-> ExportRec(hs[i])]] :
        m \in BOOLEAN, hs \in UNION {[1..n -> 1..2] : n \in 0..MaxRows}}

UtilEntries == {"convert_wei_to_eth", "calculate_gas_fee", "convert_timestamp"}
Entries == {"main", "service", "get_transactions", "analyze", "analyzer", "export"}
           \cup UtilEntries
Runs == {"main", "service"}

----------------------------------------------------------------------------
(* Initial states: one entry point with its inputs, nothing executed yet *)

EmptyRemote == [a \in Actions |-> <<>>]

RunRemotes ==
    { [a \in Actions |->
         LET c == CHOOSE i \in 1..Len(TRANSACTION_ACTIONS) : TRANSACTION_ACTIONS[i].val = a
         IN  RunSource(c, lens[c])]
      : lens \in [1..Len(TRANSACTION_ACTIONS) -> 0..MaxRunLen] }

PageRemotes ==
    { [a \in Actions |-> IF a = "txlist" THEN MkSource(b) ELSE <<>>] : b \in BlockSeqs }

Init ==
    /\ entry \in Entries
    /\ pc = IF entry \in {"analyze", "analyzer"} THEN "analyze" ELSE "start"
    /\ address \in (IF entry = "main" THEN Addresses ELSE {ValidAddress})
    /\ api_key_set \in (IF entry = "main" THEN BOOLEAN ELSE {TRUE})
    /\ remote \in (IF entry \in Runs THEN RunRemotes
                   ELSE IF entry = "get_transactions" THEN PageRemotes
                   ELSE {EmptyRemote})
    /\ offset \in (IF entry = "get_transactions" THEN 1..MaxOffset ELSE {RunOffset})
    /\ IF entry = "analyze"
       THEN \/ \E ks \in KeySeqs : \E kinds \in KindSeqs :
                  \E owner \in Owners(Len(kinds), Len(ks)) :
                      raw_transaction_data = AnalyzeInput(ks, kinds, owner)
            \/ \E k \in SingleKeys : \E present \in PresentKeySets :
                  \E err \in (IF "isError" \in present THEN IsErrorTexts ELSE {<<"0">>}) :
                      raw_transaction_data = SingleInput(k, present, err)
       ELSE IF entry = "analyzer" THEN raw_transaction_data \in CallInputs
       ELSE raw_transaction_data = <<>>
    /\ cat_idx = 0
    /\ action = "txlist"
    /\ start_block = 0
    /\ batch_number = 1
    /\ transactions = <<>>
    /\ attempt = 0
    /\ outstanding = 0
    /\ results = <<>>
    /\ page_outcome = "none"
    /\ page_return = <<>>
    /\ fetch_outcome = "none"
    /\ raw_data = <<>>
    /\ analyze_outcome = "none"
    /\ analyze_return = <<>>
    /\ processed_transactions = <<>>
    /\ analyze_calls = 0
    /\ export_calls = 0
    /\ export_arg \in (IF entry = "export" THEN ExportArgs ELSE {List(<<>>)})
    /\ export_outcome = "none"
    /\ csv_file = NoFile
    /\ exit_code = "none"
    /\ fn_args \in (IF entry = "convert_wei_to_eth" THEN {<<w>> : w \in WeiArgs}
                    ELSE IF entry = "calculate_gas_fee" THEN GasArgs \X GasPrices
                    ELSE IF entry = "convert_timestamp" THEN {<<t>> : t \in TsArgs}
                    ELSE {<<>>})
    /\ fn_return = Ok(<<>>)

inputVars   == <<entry, address, api_key_set, remote, offset, fn_args, export_arg>>
exportVars  == <<export_calls, export_outcome, csv_file>>
pageVars    == <<action, start_block, batch_number, transactions, attempt,
                 page_outcome, page_return>>
analyzeVars == <<raw_transaction_data, analyze_outcome, analyze_return,
                 processed_transactions, analyze_calls>>

----------------------------------------------------------------------------
(* Actions *)

\* _get_transactions is entered: transactions = [], start_block = 0,
\* batch_number = 1, and the first ApiClient.get call begins
BeginGetTransactions(act) ==
    /\ action' = act
    /\ transactions' = <<>>
    /\ start_block' = 0
    /\ batch_number' = 1
    /\ attempt' = 0
    /\ page_outcome' = "none"
    /\ page_return' = <<>>
    /\ pc' = "get"

\* the outcome of a run in which an exception reaches the driver
RunFails == IF entry = "main" THEN main_except ELSE "raised"

\* main up to the first page request: validation, get_config, client, fetch
MainStart ==
    /\ pc = "start"
    /\ entry = "main"
    /\ IF ~validate_ethereum_address(address)
       THEN /\ exit_code' = "1"
            /\ pc' = "done"
            /\ UNCHANGED <<cat_idx, results, pageVars>>
       ELSE IF ~api_key_set
       THEN /\ exit_code' = main_except
            /\ pc' = "done"
            /\ UNCHANGED <<cat_idx, results, pageVars>>
       ELSE /\ cat_idx' = 1
            /\ results' = <<>>
            /\ BeginGetTransactions(CategoryAction(1))
            /\ UNCHANGED exit_code
    /\ UNCHANGED <<inputVars, fn_return, outstanding, fetch_outcome, raw_data, analyzeVars, exportVars>>

\* generate_transaction_report up to the first page request
ServiceStart ==
    /\ pc = "start"
    /\ entry = "service"
    /\ cat_idx' = 1
    /\ results' = <<>>
    /\ BeginGetTransactions(CategoryAction(1))
    /\ UNCHANGED <<inputVars, fn_return, outstanding, fetch_outcome, raw_data, analyzeVars,
                   exportVars, exit_code>>

\* a direct call of _get_transactions
GetTransactionsStart ==
    /\ pc = "start"
    /\ entry = "get_transactions"
    /\ BeginGetTransactions("txlist")
    /\ UNCHANGED <<inputVars, fn_return, cat_idx, outstanding, results, fetch_outcome, raw_data,
                   analyzeVars, exportVars, exit_code>>

\* requests.get is called
IssueRequest(n) == n + 1

\* requests.get has returned or raised
CompleteRequest(n) == n - 1

\* the loop of ApiClient.get runs once more than MAX_RETRIES times
RetryLeft_extra(att) == att + 1 < MAX_RETRIES + 1

\* for attempt in range(self.MAX_RETRIES): another iteration follows the one
\* numbered att
RetryLeft(att) == att + 1 < MAX_RETRIES

\* ApiClient.get: one iteration of the retry loop sends one request and blocks
SendRequest ==
    /\ pc = "get"
    /\ batch_number <= MaxBatch
    /\ outstanding' = IssueRequest(outstanding)
    /\ pc' = "wait"
    /\ UNCHANGED <<inputVars, fn_return, cat_idx, pageVars, results, fetch_outcome, raw_data,
                   analyzeVars, exportVars, exit_code>>

\* the request raises RequestException: retry, or give up after MAX_RETRIES
\* and let the exception escape _get_transactions and get_all_transactions
RequestFails ==
    /\ pc = "wait"
    /\ outstanding' = CompleteRequest(outstanding)
    /\ IF RetryLeft(attempt)
       THEN /\ attempt' = attempt + 1
            /\ pc' = "get"
            /\ UNCHANGED <<page_outcome, fetch_outcome, raw_data, raw_transaction_data,
                           exit_code>>
       ELSE /\ page_outcome' = "raised"
            /\ UNCHANGED attempt
            /\ IF entry \in Runs
               THEN LET h == get_all_transactions_except(results)
                    IN  /\ fetch_outcome' = h.outcome
                        /\ raw_data' = h.value
                        /\ IF h.outcome = "raised"
                           THEN /\ pc' = "done"
                                /\ exit_code' = RunFails
                                /\ UNCHANGED raw_transaction_data
                           ELSE /\ pc' = "analyze"
                                /\ raw_transaction_data' = h.value
                                /\ UNCHANGED exit_code
               ELSE /\ pc' = "done"
                    /\ UNCHANGED <<fetch_outcome, raw_data, raw_transaction_data, exit_code>>
    /\ UNCHANGED <<inputVars, fn_return, cat_idx, action, start_block, batch_number, transactions,
                   page_return, results, analyze_outcome, analyze_return,
                   processed_transactions, analyze_calls, exportVars>>

\* the request succeeds: the rest of the loop body of _get_transactions
RequestSucceeds ==
    /\ pc = "wait"
    /\ outstanding' = CompleteRequest(outstanding)
    /\ LET result == Page(remote[action], start_block, offset)
           all    == ExtendTransactions(transactions, result)
       IN  /\ transactions' = all
           /\ IF ShortPage(result, offset)
                 \/ NoProgress(LastBlockNumber(result), start_block)
              THEN /\ page_outcome' = "returned"
                   /\ page_return' = all
                   /\ pc' = IF entry \in Runs THEN "store" ELSE "done"
                   /\ UNCHANGED <<start_block, batch_number, attempt>>
              ELSE /\ start_block' = NextStartBlock(LastBlockNumber(result))
                   /\ batch_number' = batch_number + 1
                   /\ attempt' = 0
                   /\ pc' = "get"
                   /\ UNCHANGED <<page_outcome, page_return>>
    /\ UNCHANGED <<inputVars, fn_return, cat_idx, action, results, fetch_outcome, raw_data,
                   analyzeVars, exportVars, exit_code>>

\* get_all_transactions: results[txn_type] = ..., then the next category, or
\* return results to the driver, which constructs the analyzer and calls analyze
NextCategory ==
    /\ pc = "store"
    /\ LET stored == DictSet(results, TRANSACTION_ACTIONS[cat_idx].key, page_return)
       IN  /\ results' = stored
           /\ IF HasNextCategory(cat_idx)
              THEN /\ cat_idx' = cat_idx + 1
                   /\ BeginGetTransactions(CategoryAction(cat_idx + 1))
                   /\ UNCHANGED <<fetch_outcome, raw_data, raw_transaction_data>>
              ELSE /\ fetch_outcome' = "returned"
                   /\ raw_data' = stored
                   /\ raw_transaction_data' = stored
                   /\ pc' = "analyze"
                   /\ UNCHANGED <<cat_idx, pageVars>>
    /\ UNCHANGED <<inputVars, fn_return, outstanding, analyze_outcome, analyze_return,
                   processed_transactions, analyze_calls, exportVars, exit_code>>

\* the records of the call are added to those the instance already holds
SelfProcessed_extend(old, processed) == old \o processed

\* self.processed_transactions = processed_transactions
SelfProcessed(old, processed) == processed

\* EthereumTransactionAnalyzer.analyze, from entry to return or raise
Analyze ==
    /\ pc = "analyze"
    /\ analyze_calls' = analyze_calls + 1
    /\ LET r == analyze(raw_transaction_data)
       IN  IF r.raises
           THEN /\ analyze_outcome' = "raised"
                /\ exit_code' = IF entry \in Runs THEN RunFails ELSE exit_code
                /\ pc' = "done"
                /\ UNCHANGED <<analyze_return, processed_transactions>>
           ELSE /\ analyze_outcome' = "returned"
                /\ analyze_return' = r.value
                /\ processed_transactions' = SelfProcessed(processed_transactions, r.value)
                /\ pc' = IF entry = "main" THEN "main_export"
                         ELSE IF entry = "service" THEN "service_export"
                         ELSE "done"
                /\ UNCHANGED exit_code
    /\ UNCHANGED <<inputVars, fn_return, cat_idx, pageVars, outstanding, results, fetch_outcome,
                   raw_data, raw_transaction_data, exportVars>>

\* analyze is called once more on the same analyzer instance
AnalyzeAgain ==
    /\ pc = "done"
    /\ entry = "analyzer"
    /\ analyze_calls < MaxCalls
    /\ raw_transaction_data' \in CallInputs
    /\ analyze_outcome' = "none"
    /\ pc' = "analyze"
    /\ UNCHANGED <<inputVars, fn_return, cat_idx, pageVars, outstanding, results, fetch_outcome,
                   raw_data, analyze_return, processed_transactions, analyze_calls,
                   exportVars, exit_code>>

\* transactions.model_dump() on the list that analyze returns: a list has no
\* such attribute, AttributeError
model_dump(txs) == Raise

\* main: exporter.export(processed_transactions.model_dump(), address); the
\* argument raises before export is entered
MainExport ==
    /\ pc = "main_export"
    /\ IF model_dump(analyze_return).raises
       THEN /\ exit_code' = main_except
            /\ UNCHANGED export_calls
       ELSE /\ exit_code' = "0"
            /\ export_calls' = export_calls + 1
    /\ pc' = "done"
    /\ UNCHANGED <<export_outcome, csv_file>>
    /\ UNCHANGED <<inputVars, fn_return, cat_idx, pageVars, outstanding, results, fetch_outcome,
                   raw_data, analyzeVars>>

\* generate_transaction_report: self.data_exporter.export(processed_transactions,
\* address); CSVExporter.export logs and re-raises what model_dump raises
ServiceExport ==
    /\ pc = "service_export"
    /\ export_calls' = export_calls + 1
    /\ export_outcome' = IF export(List(analyze_return)).raises THEN "raised" ELSE "returned"
    /\ csv_file' = export(List(analyze_return)).file
    /\ exit_code' = IF export(List(analyze_return)).raises THEN "raised" ELSE "returned"
    /\ pc' = "done"
    /\ UNCHANGED <<inputVars, fn_return, cat_idx, pageVars, outstanding, results, fetch_outcome,
                   raw_data, analyzeVars>>

\* a direct call of CSVExporter.export
Export ==
    /\ pc = "start"
    /\ entry = "export"
    /\ export_calls' = export_calls + 1
    /\ export_outcome' = IF export(export_arg).raises THEN "raised" ELSE "returned"
    /\ csv_file' = export(export_arg).file
    /\ pc' = "done"
    /\ UNCHANGED <<inputVars, fn_return, cat_idx, pageVars, outstanding, results,
                   fetch_outcome, raw_data, analyzeVars, exit_code>>

\* a direct call of utils.convert_wei_to_eth
ConvertWeiToEth ==
    /\ pc = "start"
    /\ entry = "convert_wei_to_eth"
    /\ fn_return' = convert_wei_to_eth(fn_args[1])
    /\ pc' = "done"
    /\ UNCHANGED <<inputVars, cat_idx, pageVars, outstanding, results, fetch_outcome,
                   raw_data, analyzeVars, exportVars, exit_code>>

\* a direct call of utils.calculate_gas_fee
CalculateGasFee ==
    /\ pc = "start"
    /\ entry = "calculate_gas_fee"
    /\ fn_return' = calculate_gas_fee(fn_args[1], fn_args[2])
    /\ pc' = "done"
    /\ UNCHANGED <<inputVars, cat_idx, pageVars, outstanding, results, fetch_outcome,
                   raw_data, analyzeVars, exportVars, exit_code>>

\* a direct call of utils.convert_timestamp
ConvertTimestamp ==
    /\ pc = "start"
    /\ entry = "convert_timestamp"
    /\ fn_return' = convert_timestamp(fn_args[1])
    /\ pc' = "done"
    /\ UNCHANGED <<inputVars, cat_idx, pageVars, outstanding, results, fetch_outcome,
                   raw_data, analyzeVars, exportVars, exit_code>>

Next ==
    \/ MainStart
    \/ ServiceStart
    \/ GetTransactionsStart
    \/ SendRequest
    \/ RequestFails
    \/ RequestSucceeds
    \/ NextCategory
    \/ Analyze
    \/ AnalyzeAgain
    \/ MainExport
    \/ ServiceExport
    \/ Export
    \/ ConvertWeiToEth
    \/ CalculateGasFee
    \/ ConvertTimestamp

Spec == Init /\ [][Next]_vars

\* the steps of the request loop of _get_transactions
PageStep == SendRequest \/ RequestFails \/ RequestSucceeds

\* every step of the request loop is eventually taken: a request that was
\* sent is answered, and the code between two requests runs to the next one
FairSpec == Spec /\ WF_vars(PageStep)

TypeOK ==
    /\ entry \in Entries
    /\ pc \in {"start", "get", "wait", "store", "analyze", "main_export",
               "service_export", "done"}
    /\ attempt \in 0..(MAX_RETRIES - 1)
    /\ outstanding \in 0..1
    /\ exit_code \in {"none", "0", "1", "raised", "returned"}

----------------------------------------------------------------------------
(* Pagination: C1 - C4 *)

\* C1: every record of the source is in the sequence _get_transactions
\* returns, also when one block straddles a page boundary or holds more
\* records than a page
C1_PaginationComplete ==
    page_outcome = "returned" =>
        \A k \in 1..Len(remote[action]) : remote[action][k] \in Range(page_return)

\* C2: no source record is accumulated twice, and every request after the
\* first starts strictly above the block of every record fetched before it
C2_NoDuplication ==
    /\ \A a, b \in 1..Len(transactions) : a # b => transactions[a] # transactions[b]
    /\ \A a, b \in 1..Len(page_return) : a # b => page_return[a] # page_return[b]
    /\ pc \in {"get", "wait"} =>
           \A a \in 1..Len(transactions) : transactions[a].blockNumber < start_block

C2_Witness ==
    /\ page_outcome = "returned"
    /\ batch_number >= 2
    /\ Len(page_return) >= 2

\* C3: a started _get_transactions call ends after at most one page request
\* per source record plus one, whatever the page size and however many
\* records share a block
C3_PaginationTerminates ==
    /\ [](batch_number <= Len(remote[action]) + 1)
    /\ (pc = "get") ~> (page_outcome # "none")

C3_Witness ==
    /\ page_outcome = "returned"
    /\ \E b \in 0..MaxBlock :
           Cardinality({k \in 1..Len(remote[action]) : remote[action][k].blockNumber = b}) > offset

\* C4: when the transport gives up, _get_transactions and get_all_transactions
\* raise: no record list and no category mapping is returned, no request is
\* outstanding and the thread has stopped, so no further request is issued
C4_TransportFailurePropagates ==
    page_outcome = "raised" =>
        /\ page_return = <<>>
        /\ pc = "done"
        /\ outstanding = 0
        /\ entry \in Runs => (fetch_outcome = "raised" /\ raw_data = <<>>)

C4_Witness ==
    /\ page_outcome = "raised"
    /\ entry \in Runs
    /\ \E i \in 1..Len(results) : results[i].val # <<>>

----------------------------------------------------------------------------
(* The analyzer: C5 - C8 *)

\* the records of one input item that _process_transaction turns into a record
Normalizable(item) ==
    SelectSeq(item.val,
              LAMBDA tx : ~_process_transaction(tx, DictGet(TRANSACTION_TYPES, item.key)).raises)

\* the output records that carry the label of one input item
OutputOf(out, item) ==
    SelectSeq(out, LAMBDA o : o.transaction_type = DictGet(TRANSACTION_TYPES, item.key))

\* the position, in the input list of its category, of the raw record an
\* output record was made from
InputPos(data, o) ==
    LET i == CHOOSE i \in 1..Len(data) :
                 /\ DictHas(TRANSACTION_TYPES, data[i].key)
                 /\ DictGet(TRANSACTION_TYPES, data[i].key) = o.transaction_type
    IN  CHOOSE j \in 1..Len(data[i].val) :
            Get(data[i].val[j], "hash", EmptyDefault) = o.transaction_hash

\* the labels of the category blocks of an output, in order of appearance
RECURSIVE CategoryBlocks(_)
CategoryBlocks(out) ==
    IF Len(out) = 0 THEN <<>>
    ELSE LET front == CategoryBlocks(SubSeq(out, 1, Len(out) - 1))
             label == out[Len(out)].transaction_type
         IN  IF Len(front) > 0 /\ front[Len(front)] = label THEN front
             ELSE Append(front, label)

\* C5: a record whose normalization raises is skipped: analyze never raises,
\* and for each category the output holds the normalized form of every other
\* record, N-1 records when one of N fails
C5_PerRecordIsolation ==
    /\ analyze_outcome # "raised"
    /\ analyze_outcome = "returned" =>
           \A i \in 1..Len(raw_transaction_data) :
               LET item == raw_transaction_data[i]
               IN  DictHas(TRANSACTION_TYPES, item.key) =>
                       /\ Len(OutputOf(analyze_return, item)) = Len(Normalizable(item))
                       /\ \A k \in 1..Len(Normalizable(item)) :
                              _process_transaction(Normalizable(item)[k],
                                                   DictGet(TRANSACTION_TYPES, item.key)).value
                                  \in Range(analyze_return)

\* C6: the output records of one category keep the relative order of their
\* raw records, and the records of one category are contiguous in the output
C6_OrderPreserved ==
    analyze_outcome = "returned" =>
        LET out == analyze_return
        IN  /\ \A a, b \in 1..Len(out) :
                   (a < b /\ out[a].transaction_type = out[b].transaction_type)
                       => InputPos(raw_transaction_data, out[a])
                              < InputPos(raw_transaction_data, out[b])
            /\ \A a, b, c \in 1..Len(out) :
                   (a < b /\ b < c /\ out[a].transaction_type = out[c].transaction_type)
                       => out[b].transaction_type = out[a].transaction_type

C6_Witness ==
    /\ analyze_outcome = "returned"
    /\ Len(CategoryBlocks(analyze_return)) >= 2
    /\ \E a, b \in 1..Len(analyze_return) :
           a # b /\ analyze_return[a].transaction_type = analyze_return[b].transaction_type

\* the same mapping with its keys inserted in another order
Reorderings(data) ==
    { [i \in 1..Len(data) |-> data[f[i]]] : f \in Permutations(1..Len(data)) }

\* C7 as claimed: the order of the category blocks of the output is the same
\* for every key order of the input mapping
C7_OrderIndependentOfKeyOrder ==
    analyze_outcome = "returned" =>
        \A other \in Reorderings(raw_transaction_data) :
            ~analyze(other).raises =>
                CategoryBlocks(analyze(other).value) = CategoryBlocks(analyze_return)

\* the labels of the input keys that contribute a record, in key order
ContributingLabels(data) ==
    LET kept == SelectSeq(data, LAMBDA item :
                    DictHas(TRANSACTION_TYPES, item.key) /\ Len(Normalizable(item)) > 0)
    IN  [i \in 1..Len(kept) |-> DictGet(TRANSACTION_TYPES, kept[i].key)]

\* C7 as amended: the category blocks of the output appear in the key order
\* of the input mapping
C7_OrderFollowsInputKeys ==
    analyze_outcome = "returned" =>
        CategoryBlocks(analyze_return) = ContributingLabels(raw_transaction_data)

C7_Witness ==
    /\ analyze_outcome = "returned"
    /\ entry = "analyze"
    /\ Len(CategoryBlocks(analyze_return)) >= 2

\* C8: a key outside the five categories contributes no output record and no
\* error; an input with only such keys yields an empty output
C8_UnknownCategoriesIgnored ==
    /\ analyze_outcome = "returned" =>
           \A a \in 1..Len(analyze_return) :
               \E i \in 1..Len(raw_transaction_data) :
                   /\ raw_transaction_data[i].key \in EthereumTransactionType
                   /\ \E j \in 1..Len(raw_transaction_data[i].val) :
                          Get(raw_transaction_data[i].val[j], "hash", EmptyDefault)
                              = analyze_return[a].transaction_hash
    /\ (/\ analyze_calls > 0
        /\ \A i \in 1..Len(raw_transaction_data) :
               raw_transaction_data[i].key \notin EthereumTransactionType)
           => (analyze_outcome = "returned" /\ analyze_return = <<>>)

----------------------------------------------------------------------------
(* The drivers: C9, C10 *)

\* C9: when the fetch fails, analyze and export are never invoked and the run
\* ends in its error outcome: main returns 1, generate_transaction_report raises
C9_FetchFailureAborts ==
    (entry \in Runs /\ fetch_outcome = "raised") =>
        /\ analyze_calls = 0
        /\ export_calls = 0
        /\ processed_transactions = <<>>
        /\ pc = "done"
        /\ exit_code = IF entry = "main" THEN "1" ELSE "raised"

C9_Witness ==
    /\ entry = "main"
    /\ fetch_outcome = "raised"
    /\ exit_code = "1"
    /\ Len(results) >= 1

\* C10 as claimed: while a later category is being fetched, the records of
\* every category fetched before it have been normalized; one request at most
\* is outstanding
C10_CategoryAtATime ==
    /\ outstanding <= 1
    /\ (entry \in Runs /\ pc \in {"get", "wait"}) =>
           \A i \in 1..Len(results) :
               \A k \in 1..Len(results[i].val) :
                   \E a \in 1..Len(processed_transactions) :
                       processed_transactions[a].transaction_hash = results[i].val[k].hash

\* C10 as amended: nothing is normalized while a category is still to be
\* fetched; analyze runs on the mapping of all five categories that
\* get_all_transactions returned; one request at most is outstanding
C10_FetchAllThenNormalize ==
    /\ outstanding \in {0, 1}
    /\ pc \in {"get", "wait", "store"} =>
           (analyze_calls = 0 /\ processed_transactions = <<>>)
    /\ (entry \in Runs /\ analyze_calls > 0) =>
           /\ fetch_outcome = "returned"
           /\ DictKeys(raw_data) = DictKeys(TRANSACTION_ACTIONS)
           /\ raw_transaction_data = raw_data
           /\ outstanding = 0

C10_Witness ==
    /\ entry \in Runs
    /\ analyze_outcome = "returned"
    /\ Len(processed_transactions) >= 2

----------------------------------------------------------------------------
(* Pagination: C11 - C13 *)

\* the step in which a page request is answered with a page (not a failure:
\* a failure moves attempt to attempt + 1 or ends the call raised)
PageAnswered ==
    /\ pc = "wait"
    /\ pc' # "wait"
    /\ attempt' # attempt + 1
    /\ page_outcome' # "raised"

\* C11: when the page answering a request holds exactly offset records and
\* its last block equals the startblock of that request, _get_transactions
\* issues no further request and returns what it accumulated; a full first
\* page at the initial startblock ends the call after exactly one request
C11_ConditionB ==
    [][LET result == Page(remote[action], start_block, offset)
       IN  (PageAnswered /\ Len(result) = offset
                         /\ LastBlockNumber(result) = start_block)
           => /\ page_outcome' = "returned"
              /\ page_return' = transactions \o result
              /\ pc' \notin {"get", "wait"}
              /\ batch_number' = batch_number
              /\ outstanding' = 0]_vars

C11_Witness ==
    /\ entry = "get_transactions"
    /\ page_outcome = "returned"
    /\ batch_number = 1
    /\ start_block = 0
    /\ Len(page_return) = offset
    /\ LastBlockNumber(page_return) = 0
    /\ Len(remote[action]) > offset

\* C12: when the page answering a request holds fewer than offset records,
\* none included, _get_transactions issues no further request and returns
\* what it accumulated; a short first page ends the call after exactly one
\* request
C12_ConditionA ==
    [][LET result == Page(remote[action], start_block, offset)
       IN  (PageAnswered /\ Len(result) < offset)
           => /\ page_outcome' = "returned"
              /\ page_return' = transactions \o result
              /\ pc' \notin {"get", "wait"}
              /\ batch_number' = batch_number
              /\ outstanding' = 0]_vars

C12_Witness ==
    /\ entry = "get_transactions"
    /\ page_outcome = "returned"
    /\ batch_number = 1
    /\ Len(page_return) >= 1
    /\ Len(page_return) < offset

\* the block numbers of a record sequence never decrease
Ascending(txs) == \A i \in 1..(Len(txs) - 1) : txs[i].blockNumber <= txs[i + 1].blockNumber

\* C13: the source answers every request in ascending block order from the
\* requested startblock on; then each answered page is appended after the
\* pages answered before it, and the accumulated and the returned sequence
\* never decrease in block number
C13_AscendingOutput ==
    /\ [](Ascending(transactions) /\ Ascending(page_return))
    /\ [](page_outcome = "returned" => page_return = transactions)
    /\ [][PageAnswered =>
              transactions' = transactions \o Page(remote[action], start_block, offset)]_vars

C13_Witness ==
    /\ page_outcome = "returned"
    /\ batch_number >= 2
    /\ Len(page_return) >= 2
    /\ page_return[1].blockNumber < page_return[Len(page_return)].blockNumber

----------------------------------------------------------------------------
(* Numeric conversion: C14 - C17 *)

\* text is a natural in positional notation: digits, then possibly a point
\* and 1 to 18 digits the last of which is not 0
PlainPositional(text) ==
    LET ps   == {i \in 1..Len(text) : text[i] = "."}
        ppos == IF ps = {} THEN Len(text) + 1 ELSE CHOOSE i \in ps : TRUE
        frac == SubSeq(text, ppos + 1, Len(text))
    IN  /\ Cardinality(ps) <= 1
        /\ IsDigits(SubSeq(text, 1, ppos - 1))
        /\ ps # {} => (IsDigits(frac) /\ Len(frac) <= 18 /\ Last(frac) # "0")

\* the number of base units a positional amount of whole units stands for
ToWei(text) ==
    LET ps   == {i \in 1..Len(text) : text[i] = "."}
        ppos == IF ps = {} THEN Len(text) + 1 ELSE CHOOSE i \in ps : TRUE
        frac == SubSeq(text, ppos + 1, Len(text))
    IN  StripLeadingZeros(SubSeq(text, 1, ppos - 1) \o frac \o Repeat("0", 18 - Len(frac)))

\* C14: for every str of decimal digits, of any length, convert_wei_to_eth
\* returns the exact quotient by 10^18 in positional notation: 10^18 times
\* the result is the argument, and the result has no exponent, at most 18
\* fractional digits, no trailing fractional zero and no trailing point
C14_ExactConversion ==
    (entry = "convert_wei_to_eth" /\ pc = "done"
        /\ ~fn_args[1].isNone /\ IsDigits(fn_args[1].text)) =>
        /\ ~fn_return.raises
        /\ PlainPositional(fn_return.value)
        /\ ToWei(fn_return.value) = StripLeadingZeros(fn_args[1].text)

\* text holds a character that occurs in no numeric literal
NonNumeric(text) == \E i \in 1..Len(text) : text[i] \notin Digits \cup {".", "E", "+", "-"}

ExactProduct(u, p) ==
    LET prod == MulDigits(StripLeadingZeros(u), StripLeadingZeros(p))
    IN  IF prod = <<>> THEN <<"0">> ELSE prod

\* the argument is unusable: None, '', not a number, or zero
NoAmount(v) ==
    Falsy(v) \/ NonNumeric(v.text) \/ (IsDigits(v.text) /\ StripLeadingZeros(v.text) = <<>>)

\* C16: for strs of digits calculate_gas_fee returns what convert_wei_to_eth
\* returns for the exact integer product; it never raises and returns '0'
\* when an argument is empty, does not parse or is zero
C16_GasFee ==
    (entry = "calculate_gas_fee" /\ pc = "done") =>
        /\ ~fn_return.raises
        /\ (NoAmount(fn_args[1]) \/ NoAmount(fn_args[2])) => fn_return.value = <<"0">>
        /\ (~fn_args[1].isNone /\ ~fn_args[2].isNone
              /\ IsDigits(fn_args[1].text) /\ IsDigits(fn_args[2].text)) =>
               fn_return = convert_wei_to_eth(
                               Str(ExactProduct(fn_args[1].text, fn_args[2].text)))

C16_Witness ==
    /\ entry = "calculate_gas_fee"
    /\ pc = "done"
    /\ IsDigits(fn_args[1].text)
    /\ IsDigits(fn_args[2].text)
    /\ Len(ExactProduct(fn_args[1].text, fn_args[2].text)) > DecimalPrec
    /\ fn_return.value # <<"0">>

\* text has the form YYYY-MM-DD HH:MM:SS
IsDateTimeForm(text) ==
    /\ Len(text) = 19
    /\ \A i \in 1..19 :
           IF i \in {5, 8} THEN text[i] = "-"
           ELSE IF i = 11 THEN text[i] = " "
           ELSE IF i \in {14, 17} THEN text[i] = ":"
           ELSE text[i] \in Digits

\* C17: convert_timestamp never raises; it returns '' when its argument is
\* empty, is not an integer or does not fit the time type of the platform,
\* and otherwise '' or a text of the form YYYY-MM-DD HH:MM:SS
C17_TimestampNeverFails ==
    (entry = "convert_timestamp" /\ pc = "done") =>
        /\ ~fn_return.raises
        /\ (Falsy(fn_args[1]) \/ ~IntParse(fn_args[1].text).ok
               \/ TimeTOverflow(IntParse(fn_args[1].text))) => fn_return.value = <<>>
        /\ fn_return.value = <<>> \/ IsDateTimeForm(fn_return.value)

----------------------------------------------------------------------------
(* The normalizer: C18 - C20 *)

\* the raw records analyze is to normalize, each with the label of its key
RawWithLabel ==
    UNION { { [tx |-> raw_transaction_data[i].val[j],
               label |-> DictGet(TRANSACTION_TYPES, raw_transaction_data[i].key)]
              : j \in 1..Len(raw_transaction_data[i].val) }
            : i \in {i \in 1..Len(raw_transaction_data) :
                       DictHas(TRANSACTION_TYPES, raw_transaction_data[i].key)} }

\* C18: the is_error of a normalized record is true exactly when the raw
\* record holds isError with the value '1', and false when the key is
\* absent or holds anything else
C18_ErrorFlag ==
    analyze_outcome = "returned" =>
        \A p \in RawWithLabel :
            LET r == _process_transaction(p.tx, p.label)
            IN  ~r.raises =>
                    /\ r.value \in Range(analyze_return)
                    /\ r.value.is_error
                           = ("isError" \in DOMAIN p.tx /\ p.tx["isError"] = <<"1">>)

C18_Witness ==
    /\ analyze_outcome = "returned"
    /\ Len(analyze_return) = 1
    /\ analyze_return[1].is_error
    /\ Get(raw_transaction_data[1].val[1], "isError", <<>>) = <<"1">>

\* the keys of a raw record whose text is copied to a field of the output
CopiedFields ==
    << [key |-> "hash",             val |-> "transaction_hash"],
       [key |-> "from",             val |-> "from_address"],
       [key |-> "to",               val |-> "to_address"],
       [key |-> "contractAddress",  val |-> "asset_contract_address"],
       [key |-> "blockNumber",      val |-> "block_number"],
       [key |-> "transactionIndex", val |-> "transaction_index"],
       [key |-> "input",            val |-> "input_data"] >>

C20_AssetSymbol ==
    analyze_outcome = "returned" =>
        \A p \in RawWithLabel :
            LET r == _process_transaction(p.tx, p.label)
            IN  ~r.raises =>
                    r.value.asset_symbol_name
                        = IF p.label = "ETH Transfer" THEN <<"E", "T", "H">>
                          ELSE Get(p.tx, "tokenSymbol", <<>>)

----------------------------------------------------------------------------
(* The unified schema: C21 - C22 *)

\* the key under which a record of _process_transaction would hold a field
\* of the schema: three fields have another name there, and the symbol and
\* the name of the asset are one key
FieldKey(f) ==
    CASE f = "contract_address" -> "asset_contract_address"
      [] f = "asset_symbol"     -> "asset_symbol_name"
      [] f = "asset_name"       -> "asset_symbol_name"
      [] f = "value_amount_eth" -> "value_amount"
      [] OTHER                  -> f

\* C21: every record that analyze returns holds every field of the unified
\* schema, whatever keys the raw record lacked
C21_SchemaComplete ==
    analyze_outcome = "returned" =>
        \A i \in 1..Len(analyze_return) :
            \A f \in TransactionDomainModel : FieldKey(f) \in DOMAIN analyze_return[i]

\* the record holds the key k with the value v
FieldIs(rec, k, v) == k \in DOMAIN rec /\ rec[k] = v

\* the fields of the record rec that the schema copies from the raw record
\* tx, and the label
PassedThrough(tx, label, rec) ==
    /\ FieldIs(rec, "transaction_hash", Get(tx, "hash", <<>>))
    /\ FieldIs(rec, "from_address", Get(tx, "from", <<>>))
    /\ FieldIs(rec, "to_address", Get(tx, "to", <<>>))
    /\ FieldIs(rec, FieldKey("contract_address"), Get(tx, "contractAddress", <<>>))
    /\ FieldIs(rec, FieldKey("asset_name"), Get(tx, "tokenName", <<>>))
    /\ FieldIs(rec, "token_id", Get(tx, "tokenID", <<>>))
    /\ FieldIs(rec, "transaction_type", label)
    /\ FieldIs(rec, "gas", Get(tx, "gas", <<"0">>))
    /\ FieldIs(rec, "gas_price", Get(tx, "gasPrice", <<"0">>))
    /\ FieldIs(rec, "gas_used", Get(tx, "gasUsed", <<"0">>))

PassedThroughIfOk(tx, label, r) == ~r.raises => PassedThrough(tx, label, r.value)

\* C22: the hash, the addresses, the contract address, the asset name and
\* the token id of a normalized record are the hash, from, to,
\* contractAddress, tokenName and tokenID of the raw record ('' when absent),
\* its label is the label argument, and its gas, gas_price and gas_used are
\* the raw gas, gasPrice and gasUsed ('0' when absent)
C22_PassThrough ==
    analyze_outcome = "returned" =>
        \A p \in RawWithLabel :
            PassedThroughIfOk(p.tx, p.label, _process_transaction(p.tx, p.label))

----------------------------------------------------------------------------
(* The category tables: C23 *)

\* the label of each of the five categories
CategoryLabels ==
    { [key |-> "normal",   val |-> "ETH Transfer"],
      [key |-> "erc20",    val |-> "ERC-20 Transfer"],
      [key |-> "erc721",   val |-> "ERC-721 Transfer"],
      [key |-> "erc1155",  val |-> "ERC-1155 Transfer"],
      [key |-> "internal", val |-> "Internal Transfer"] }

\* C23: in every state of a run from any entry point the table of labels
\* maps exactly the five categories to their five labels and has no other
\* key, and the table of actions has an action for each of the five
C23_CategoryTables ==
    entry \in Entries =>
        /\ Range(TRANSACTION_TYPES) = CategoryLabels
        /\ \A c \in EthereumTransactionType : DictHas(TRANSACTION_ACTIONS, c)

----------------------------------------------------------------------------
(* The exporter: C24 - C25 *)

\* the records handed to the export call of this behaviour
ExportInput == IF entry = "export" THEN export_arg.root ELSE analyze_return

\* C24: an export call with an empty sequence of records ends by raising
\* and writes no file
C24_EmptyExportRejected ==
    (export_outcome # "none" /\ ExportInput = <<>>) =>
        (export_outcome = "raised" /\ ~csv_file.written)

----------------------------------------------------------------------------
(* The transport: C26 *)

\* the request of the call in progress failed and the loop sends another
GetRetries ==
    /\ attempt + 1 < MAX_RETRIES
    /\ attempt' = attempt + 1
    /\ pc' = "get"
    /\ transactions' = transactions
    /\ page_outcome' = page_outcome

\* the last request of the call failed and the call raises
GetRaises ==
    /\ attempt + 1 = MAX_RETRIES
    /\ page_outcome' = "raised"
    /\ transactions' = transactions
    /\ pc' # "get"

\* the request succeeded and the call returns the body: the caller takes the
\* page, and a request that follows belongs to the next call
GetReturns ==
    /\ transactions' = ExtendTransactions(transactions, Page(remote[action], start_block, offset))
    /\ page_outcome' # "raised"
    /\ attempt' \in {0, attempt}
    /\ pc' = "get" => (attempt' = 0 /\ batch_number' = batch_number + 1)

\* C26: a call of ApiClient.get sends at most MAX_RETRIES requests; a failed
\* request is followed by another while fewer than MAX_RETRIES were sent and
\* by an exception after the last; a request that succeeds ends the call
\* with the body and no further request of that call; the caller receives a
\* page only from a request that succeeded
C26_TransportOutcome ==
    /\ [](attempt < MAX_RETRIES)
    /\ [][pc = "wait" => (GetRetries \/ GetRaises \/ GetReturns)]_vars
    /\ [][(pc # "wait" /\ pc' # "get") =>
              (transactions' = transactions /\ page_outcome' = page_outcome)]_vars

C26_Witness ==
    /\ page_outcome = "raised"
    /\ attempt = MAX_RETRIES - 1
    /\ outstanding = 0

----------------------------------------------------------------------------
(* All categories: C27 *)

\* C27: the mapping get_all_transactions returns has exactly the five
\* categories as its keys, in the order of TRANSACTION_ACTIONS, each with the
\* records fetched from the source of its own action; the categories are
\* fetched one after another in that order, each call with the action of
\* its category
C27_AllCategoriesFetched ==
    /\ [](fetch_outcome = "returned" =>
             /\ DictKeys(raw_data) = DictKeys(TRANSACTION_ACTIONS)
             /\ Range(DictKeys(raw_data)) = EthereumTransactionType
             /\ \A i \in 1..Len(raw_data) :
                    raw_data[i].val = remote[TRANSACTION_ACTIONS[i].val])
    /\ []((entry \in Runs /\ pc \in {"get", "wait", "store"}) =>
             action = TRANSACTION_ACTIONS[cat_idx].val)
    /\ [][cat_idx' # cat_idx => cat_idx' = cat_idx + 1]_vars

C27_Witness ==
    /\ fetch_outcome = "returned"
    /\ Len(raw_data) = 5
    /\ \A i \in 1..Len(raw_data) : raw_data[i].val # <<>>

----------------------------------------------------------------------------
(* The cursor: C28 *)

\* the page that answers the request in progress
PageInProgress == Page(remote[action], start_block, offset)

\* C28: in a _get_transactions call the first request has startblock 0;
\* every later request has the block number of the last record of the page
\* before it, plus one, which is above the startblock of the request before
\* it; startblock changes at no other time; the page size is the same in
\* every request
C28_CursorProgression ==
    /\ []((pc \in {"get", "wait"} /\ batch_number = 1) => start_block = 0)
    /\ [][batch_number' = batch_number + 1 =>
              /\ PageInProgress # <<>>
              /\ start_block' = PageInProgress[Len(PageInProgress)].blockNumber + 1
              /\ start_block' > start_block]_vars
    /\ [][start_block' # start_block =>
              \/ batch_number' = batch_number + 1
              \/ start_block' = 0 /\ batch_number' = 1]_vars
    /\ [][offset' = offset]_vars

C28_Witness ==
    /\ pc = "wait"
    /\ batch_number >= 3
    /\ start_block >= 2

----------------------------------------------------------------------------
(* Calls on one analyzer instance: C29 *)

----------------------------------------------------------------------------
(* Address validation: C30 *)

\* 0x or 0X followed by exactly 40 hexadecimal characters and nothing else
WellFormedAddress(addr) ==
    /\ Len(addr) = 42
    /\ addr[1] = "0"
    /\ addr[2] \in {"x", "X"}
    /\ \A i \in 3..42 : addr[i] \in HexChars

\* C30: validate_ethereum_address accepts the address of a run of main
\* exactly when it is 0x or 0X and 40 hexadecimal characters; when it
\* rejects the address main returns 1 and nothing is fetched, analyzed or
\* exported
C30_AddressValidation ==
    entry = "main" =>
        /\ validate_ethereum_address(address) <=> WellFormedAddress(address)
        /\ (~validate_ethereum_address(address) /\ pc = "done") =>
               /\ exit_code = "1"
               /\ fetch_outcome = "none"
               /\ batch_number = 1 /\ outstanding = 0
               /\ analyze_calls = 0
               /\ export_calls = 0

====
